---- MODULE Spec2Model ----
(***************************************************************************)
(* Model of the ask-my-doc worker (src/src/handlers.ts): the upload,       *)
(* process, ask and semantic handlers and the GET routes as state machines *)
(* over the three external stores (R2 object store, D1 documents table,    *)
(* Vectorize index).                                                       *)
(* Every await of a handler is one step; each external call either         *)
(* returns or throws, chosen nondeterministically.                         *)
(***************************************************************************)
EXTENDS Integers, Sequences, FiniteSets, TLC

VARIABLES req, db, vec, r2, issued, open

vars == <<req, db, vec, r2, issued, open>>

(* ---------------------------------------------------------------- bounds *)

\* Number of request slots: each slot handles one request, slots interleave.
MaxReqs == 2
\* Number of distinct ids crypto.randomUUID() can hand out.
NumIds == 2

\* Longest of the short texts the summary slice is applied to.
MaxShortLen == 50

Reqs == 1..MaxReqs
Ids == 1..NumIds

(* ------------------------------------------------------------ constants *)

TopK == 5
SummaryBudget == 200000

\* Extracted texts, as sequences of characters.
Texts == {<<>>, <<"a">>}
\* The file an upload carries (name and bytes).
Files == {[name |-> "a.txt", type |-> "text/plain", body |-> <<97>>]}
\* formData.get('file') of a form without a file field.
NoFile == [name |-> "", type |-> "", body |-> <<>>]
\* Caller questions; the empty string stands for a missing or empty query.
Queries == {"", "q"}
\* Bodies of the retrieval requests: text that is no JSON, or a JSON object with
\* the query fields it carries (none, or one value).
Bodies == {[json |-> FALSE, fields |-> <<>>]}
          \cup {[json |-> TRUE, fields |-> f] : f \in {<<>>} \cup {<<q>> : q \in Queries}}

NotFoundText == <<"n", "o", "t", " ", "f", "o", "u", "n", "d">>
\* The JavaScript value undefined (an absent vector, an unset slot).
Undefined == <<"undefined">>

Idle == [kind |-> "idle"]

(* -------------------------------------------------------------- helpers *)

\* c.json(body, status): the handler has returned its response.
Respond(r, st, body) ==
    [kind |-> r.kind, pc |-> "done", status |-> st, body |-> body, in |-> r]

Done(i) == req[i].kind # "idle" /\ req[i].pc = "done"

\* A request takes the first free slot: slots are filled in order of arrival.
Free(i) == req[i] = Idle /\ \A j \in 1..(i - 1) : req[j] # Idle

\* The embedding backend's vector for a text (opaque, determined by the text).
EmbOf(t) == <<"emb", t>>

\* A documents row.
Row(id, name, key, text) == [id |-> id, name |-> name, r2_key |-> key, extracted_text |-> text]

\* SELECT extracted_text FROM documents WHERE id = ?
SelectText(id) == {row \in db : row.id = id}

(* --------------------------------------------------------- POST / upload *)

\* crypto.randomUUID(): an id no earlier call returned. Ids are interchangeable,
\* so the unused ids are handed out in increasing order.
FreshId == CHOOSE id \in Ids \ issued : \A o \in Ids \ issued : id <= o

\* formData(); if (!file) 400; fileId = crypto.randomUUID(); r2Key
UploadStart(i) ==
    /\ Free(i)
    /\ \/ /\ req' = [req EXCEPT ![i] =
                  Respond([kind |-> "upload", file |-> NoFile, writes |-> <<>>],
                          400, "File not provided")]
          /\ UNCHANGED issued
       \/ \E f \in Files :
            LET id == FreshId IN
            /\ issued # Ids
            /\ issued' = issued \cup {id}
            /\ req' = [req EXCEPT ![i] =
                  [kind |-> "upload", pc |-> "r2put", fileId |-> id, file |-> f,
                   r2Key |-> <<"upload", id, f.name>>, markdown |-> <<>>,
                   embedding |-> Undefined, md |-> "pending", writes |-> <<>>]]
    /\ UNCHANGED <<db, vec, r2, open>>

\* catch (err) { ...; return c.json({ error: 'Failed to upload and process file' }, 500) }
UploadFailed(r) == Respond(r, 500, "Failed to upload and process file")

UploadFail(i) == req' = [req EXCEPT ![i] = UploadFailed(req[i])]

\* The request after one attempt to write to a store, with the attempt recorded.
Wrote(r, store, ok) == [r EXCEPT !.writes = Append(@, [key |-> store, ok |-> ok])]

\* Mutant of UploadR2Put: a failed put of the original is tolerated and the
\* upload goes on.
UploadR2PutLenient(i) ==
    /\ req[i].kind = "upload" /\ req[i].pc = "r2put"
    /\ \/ /\ r2' = [k \in DOMAIN r2 \cup {req[i].r2Key} |->
                      IF k = req[i].r2Key
                      THEN [body |-> req[i].file.body, contentType |-> req[i].file.type]
                      ELSE r2[k]]
          /\ req' = [req EXCEPT ![i] = [Wrote(req[i], "r2", TRUE) EXCEPT !.pc = "toMarkdown"]]
       \/ /\ req' = [req EXCEPT ![i] = [Wrote(req[i], "r2", FALSE) EXCEPT !.pc = "toMarkdown"]]
          /\ UNCHANGED r2
    /\ UNCHANGED <<db, vec, issued, open>>

\* await c.env.R2.put(r2Key, ab, ...)
UploadR2Put(i) ==
    /\ req[i].kind = "upload" /\ req[i].pc = "r2put"
    /\ \/ /\ r2' = [k \in DOMAIN r2 \cup {req[i].r2Key} |->
                      IF k = req[i].r2Key
                      THEN [body |-> req[i].file.body, contentType |-> req[i].file.type]
                      ELSE r2[k]]
          /\ req' = [req EXCEPT ![i] = [Wrote(req[i], "r2", TRUE) EXCEPT !.pc = "toMarkdown"]]
       \/ /\ req' = [req EXCEPT ![i] = UploadFailed(Wrote(req[i], "r2", FALSE))]
          /\ UNCHANGED r2
    /\ UNCHANGED <<db, vec, issued, open>>

\* mdRes = await AI.toMarkdown(...); markdown = mdRes[0]?.data ?? ''
UploadToMarkdown(i) ==
    /\ req[i].kind = "upload" /\ req[i].pc = "toMarkdown"
    /\ \/ \E t \in Texts :
            req' = [req EXCEPT ![i].pc = "embed", ![i].markdown = t, ![i].md = "data"]
       \/ req' = [req EXCEPT ![i].pc = "embed", ![i].markdown = <<>>, ![i].md = "none"]
       \/ UploadFail(i)
    /\ UNCHANGED <<db, vec, r2, issued, open>>

\* { data: emb } = await AI.run(bge, { text: [markdown] }); embedding = emb[0]
UploadEmbed(i) ==
    /\ req[i].kind = "upload" /\ req[i].pc = "embed"
    /\ \/ req' = [req EXCEPT ![i].pc = "dbInsert",
                             ![i].embedding = EmbOf(req[i].markdown)]
       \/ req' = [req EXCEPT ![i].pc = "dbInsert"]
       \/ UploadFail(i)
    /\ UNCHANGED <<db, vec, r2, issued, open>>

\* Mutant of UploadDbInsert: INSERT OR REPLACE on a table keyed by name, so the
\* row of an earlier upload of the same file name is replaced.
UploadDbInsertOrReplace(i) ==
    /\ req[i].kind = "upload" /\ req[i].pc = "dbInsert"
    /\ \/ /\ db' = {row \in db : row.name # req[i].file.name}
                    \cup {Row(req[i].fileId, req[i].file.name, req[i].r2Key,
                               req[i].markdown)}
          /\ req' = [req EXCEPT ![i] = [Wrote(req[i], "db", TRUE) EXCEPT !.pc = "vecInsert"]]
       \/ /\ req' = [req EXCEPT ![i] = UploadFailed(Wrote(req[i], "db", FALSE))]
          /\ UNCHANGED db
    /\ UNCHANGED <<vec, r2, issued, open>>

\* await DB.prepare('INSERT INTO documents ...').bind(...).run()
UploadDbInsert(i) ==
    /\ req[i].kind = "upload" /\ req[i].pc = "dbInsert"
    /\ \/ /\ SelectText(req[i].fileId) = {}
          /\ db' = db \cup {Row(req[i].fileId, req[i].file.name, req[i].r2Key,
                                req[i].markdown)}
          /\ req' = [req EXCEPT ![i] = [Wrote(req[i], "db", TRUE) EXCEPT !.pc = "vecInsert"]]
       \/ /\ req' = [req EXCEPT ![i] = UploadFailed(Wrote(req[i], "db", FALSE))]
          /\ UNCHANGED db
    /\ UNCHANGED <<vec, r2, issued, open>>

\* Mutant of UploadRecord: the metadata fileId is not the document's own id.
UploadRecordSharedScope(r) ==
    [id |-> r.fileId, values |-> r.embedding, fileId |-> 1]

\* The record upload hands to VECTORIZE.insert.
UploadRecord(r) ==
    [id |-> r.fileId, values |-> r.embedding, fileId |-> r.fileId]

\* Mutant of UploadVecInsert: a failed insert is swallowed and upload reports success.
UploadVecInsertSwallow(i) ==
    /\ req[i].kind = "upload" /\ req[i].pc = "vecInsert"
    /\ \/ /\ vec' = vec \cup {UploadRecord(req[i])}
          /\ req' = [req EXCEPT ![i] =
                 Respond(Wrote(req[i], "vec", TRUE), 200, <<"url", req[i].fileId>>)]
       \/ /\ UNCHANGED vec
          /\ req' = [req EXCEPT ![i] =
                 Respond(Wrote(req[i], "vec", FALSE), 200, <<"url", req[i].fileId>>)]
    /\ UNCHANGED <<db, r2, issued, open>>

\* await VECTORIZE.insert([...]); return c.json({ message, url })
UploadVecInsert(i) ==
    /\ req[i].kind = "upload" /\ req[i].pc = "vecInsert"
    /\ \/ /\ vec' = vec \cup {UploadRecord(req[i])}
          /\ req' = [req EXCEPT ![i] =
                 Respond(Wrote(req[i], "vec", TRUE), 200, <<"url", req[i].fileId>>)]
       \/ /\ req' = [req EXCEPT ![i] = UploadFailed(Wrote(req[i], "vec", FALSE))]
          /\ UNCHANGED vec
    /\ UNCHANGED <<db, r2, issued, open>>

Upload(i) ==
    \/ UploadStart(i)
    \/ UploadR2Put(i)
    \/ UploadToMarkdown(i)
    \/ UploadEmbed(i)
    \/ UploadDbInsert(i)
    \/ UploadVecInsert(i)

(* ---------------------------------------------------- POST /:fileId/ask *)

\* body = await c.req.json().catch(() => ({})); query = body?.query
\* A body that does not parse becomes {}, and a missing query is undefined,
\* which the check that follows treats as the empty string.
QueryOf(body) == IF body.json /\ body.fields # <<>> THEN body.fields[1] ELSE ""

\* Mutant of QueryMissing: the query check is missing.
QueryMissingNever(query) == FALSE

\* if (!query)
QueryMissing(query) == query = ""

\* body = await c.req.json().catch(() => ({})); if (!query) 400
AskStart(i) ==
    /\ Free(i)
    /\ \E id \in Ids, body \in Bodies :
         LET r == [kind |-> "ask", pc |-> "select", fileId |-> id, body |-> body,
                   query |-> QueryOf(body),
                   genCalls |-> 0, rows |-> {}, selected |-> FALSE, messages |-> <<>>]
         IN  req' = [req EXCEPT ![i] =
                 IF QueryMissing(r.query) THEN Respond(r, 400, "Query not provided") ELSE r]
    /\ UNCHANGED <<db, vec, r2, issued, open>>

AskFail(i) ==
    req' = [req EXCEPT ![i] = Respond(req[i], 500, "Failed to process query")]

\* Mutant of AskNotFound: the existence check is missing.
AskNotFoundNever(rows) == FALSE

\* if (!results.length)
AskNotFound(rows) == rows = {}

\* { results } = await DB.prepare('SELECT ...').bind(fileId).all(); if (!results.length) 404
AskSelect(i) ==
    /\ req[i].kind = "ask" /\ req[i].pc = "select"
    /\ \/ LET rows == SelectText(req[i].fileId)
              r == [req[i] EXCEPT !.rows = rows, !.selected = TRUE]
          IN  req' = [req EXCEPT ![i] =
                  IF AskNotFound(rows)
                  THEN Respond(r, 404, "Document not found")
                  ELSE [r EXCEPT !.pc = "gen"]]
       \/ AskFail(i)
    /\ UNCHANGED <<db, vec, r2, issued, open>>

\* The message list ask sends to the generative model.
AskMessages(context, query) ==
    << [role |-> "system",
        content |-> "Use the document context to answer accurately and concisely."],
       [role |-> "user", content |-> <<"Context:", context, "Question:", query>>] >>

\* The generative model's free-text answer to a message list (opaque).
Answer(messages) == <<"answer", messages>>

\* Mutant of AskContext: the context is cut short of the stored text.
AskContextCut(rows) ==
    LET text == (CHOOSE row \in rows : TRUE).extracted_text
    IN  SubSeq(text, 1, Len(text) - 1)

\* context = results[0].extracted_text
AskContext(rows) == (CHOOSE row \in rows : TRUE).extracted_text

\* { response } = await AI.run(llama, { messages }); return c.json({ response })
AskGen(i) ==
    /\ req[i].kind = "ask" /\ req[i].pc = "gen"
    /\ IF req[i].rows = {}
       THEN \* results[0].extracted_text of an empty result throws a TypeError
            AskFail(i)
       ELSE LET context == AskContext(req[i].rows)
                msgs == AskMessages(context, req[i].query)
                r == [req[i] EXCEPT !.genCalls = @ + 1, !.messages = msgs]
            IN  \/ req' = [req EXCEPT ![i] = Respond(r, 200, [response |-> Answer(msgs)])]
                \/ req' = [req EXCEPT ![i] = Respond(r, 500, "Failed to process query")]
    /\ UNCHANGED <<db, vec, r2, issued, open>>

Ask(i) ==
    \/ AskStart(i)
    \/ AskSelect(i)
    \/ AskGen(i)

(* ----------------------------------------------- POST /:fileId/semantic *)

\* A metadata filter is the tuple of the fileId it requires; <<>> filters nothing.
NoFilter == <<>>

\* The records of the index that pass a metadata filter on fileId.
Filtered(filter) ==
    IF filter = NoFilter THEN vec ELSE {rec \in vec : rec.fileId = filter[1]}

Min(a, b) == IF a < b THEN a ELSE b

\* VECTORIZE.query(vector, { topK, filter }): the possible ranked replies, the
\* topK best of the records that pass the filter, in the index's ranking order.
QueryIndex(topK, filter) ==
    LET n == Min(topK, Cardinality(Filtered(filter)))
    IN  {m \in [1..n -> Filtered(filter)] : \A a, b \in 1..n : a # b => m[a] # m[b]}

\* Mutant of SemanticFilter: the query is sent without a metadata filter.
SemanticFilterNone(r) == NoFilter

\* filter: { fileId } with fileId the path parameter
SemanticFilter(r) == <<r.fileId>>

SemanticStart(i) ==
    /\ Free(i)
    /\ \E id \in Ids, body \in Bodies :
         LET r == [kind |-> "semantic", pc |-> "embed", fileId |-> id, body |-> body,
                   query |-> QueryOf(body),
                   queryEmbedding |-> Undefined, matches |-> <<>>,
                   pending |-> {}, chunks |-> <<>>, order |-> <<>>, aiCalls |-> 0]
         IN  req' = [req EXCEPT ![i] =
                 IF QueryMissing(r.query) THEN Respond(r, 400, "Query not provided") ELSE r]
    /\ UNCHANGED <<db, vec, r2, issued, open>>

SemanticFail(i) ==
    req' = [req EXCEPT ![i] = Respond(req[i], 500, "Failed to perform semantic search")]

\* { data } = await AI.run(bge, { text: [query] }); queryEmbedding = data[0]
SemanticEmbed(i) ==
    /\ req[i].kind = "semantic" /\ req[i].pc = "embed"
    /\ \/ req' = [req EXCEPT ![i].pc = "query", ![i].aiCalls = @ + 1,
                             ![i].queryEmbedding = EmbOf(req[i].query)]
       \/ req' = [req EXCEPT ![i] =
              Respond([req[i] EXCEPT !.aiCalls = @ + 1], 500,
                      "Failed to perform semantic search")]
    /\ UNCHANGED <<db, vec, r2, issued, open>>

\* The map callbacks of Promise.all have all started: one lookup per match.
SemanticFanOut(r, matches) ==
    [r EXCEPT !.matches = matches,
              !.pending = DOMAIN matches,
              !.chunks = [k \in DOMAIN matches |-> [text |-> <<"pending">>]]]

\* similar = await VECTORIZE.query(queryEmbedding, { topK: 5, filter: { fileId } })
\* matches = similar?.matches ?? []; with no match Promise.all([]) resolves at once.
SemanticQuery(i) ==
    /\ req[i].kind = "semantic" /\ req[i].pc = "query"
    /\ \/ \E m \in QueryIndex(TopK, SemanticFilter(req[i])) :
            LET r == SemanticFanOut(req[i], m)
            IN  req' = [req EXCEPT ![i] =
                    IF r.pending = {}
                    THEN Respond(r, 200, [chunks |-> r.chunks])
                    ELSE [r EXCEPT !.pc = "lookup"]]
       \/ SemanticFail(i)
    /\ UNCHANGED <<db, vec, r2, issued, open>>

\* Mutant of ChunkOf: || in place of ??, so an empty stored text is replaced too.
ChunkOfFalsy(rows) ==
    IF rows = {} \/ (CHOOSE row \in rows : TRUE).extracted_text = <<>>
    THEN NotFoundText
    ELSE (CHOOSE row \in rows : TRUE).extracted_text

\* { text: results[0]?.extracted_text ?? 'not found' }
ChunkOf(rows) ==
    IF rows = {} THEN NotFoundText ELSE (CHOOSE row \in rows : TRUE).extracted_text

\* Mutant of ChunkSlot: results are collected in completion order.
ChunkSlotByCompletion(r, k) == Len(r.order) + 1

\* Promise.all puts the value of the k-th promise at position k of its result.
ChunkSlot(r, k) == k

\* One lookup of Promise.all(matches.map(...)) completes, in any order; the
\* response is sent when the last one has completed, and the first lookup that
\* throws rejects Promise.all.
SemanticLookup(i) ==
    /\ req[i].kind = "semantic" /\ req[i].pc = "lookup"
    /\ \E k \in req[i].pending :
         \/ LET rows == SelectText(req[i].matches[k].id)
                r == [req[i] EXCEPT !.pending = @ \ {k},
                                    !.order = Append(@, k),
                                    !.chunks[ChunkSlot(req[i], k)] = [text |-> ChunkOf(rows)]]
            IN  req' = [req EXCEPT ![i] =
                    IF r.pending = {} THEN Respond(r, 200, [chunks |-> r.chunks]) ELSE r]
         \/ SemanticFail(i)
    /\ UNCHANGED <<db, vec, r2, issued, open>>

Semantic(i) ==
    \/ SemanticStart(i)
    \/ SemanticEmbed(i)
    \/ SemanticQuery(i)
    \/ SemanticLookup(i)

(* ------------------------------------------------------- the GET routes *)

\* GET /: { results } = await DB.prepare('SELECT id, name ...').all(), rendered
\* as the landing page; when the select throws, the page of no document is
\* rendered instead. c.html answers 200 in both cases.
Landing(i) ==
    /\ Free(i)
    /\ \/ req' = [req EXCEPT ![i] =
              Respond([kind |-> "landing", dbFailed |-> FALSE], 200,
                      [documents |-> {[id |-> row.id, name |-> row.name] : row \in db}])]
       \/ req' = [req EXCEPT ![i] =
              Respond([kind |-> "landing", dbFailed |-> TRUE], 200, [documents |-> {}])]
    /\ UNCHANGED <<db, vec, r2, issued, open>>

\* GET /:fileId: the stored text of the document, 404 when no row has the id.
GetDocument(i) ==
    /\ Free(i)
    /\ \E id \in Ids :
         LET r == [kind |-> "document", fileId |-> id, rows |-> SelectText(id)]
         IN  \/ req' = [req EXCEPT ![i] =
                    IF r.rows = {}
                    THEN Respond(r, 404, "Document not found")
                    ELSE Respond(r, 200, [text |-> (CHOOSE row \in r.rows : TRUE).extracted_text])]
             \/ req' = [req EXCEPT ![i] =
                    Respond([r EXCEPT !.rows = {}], 500, "Failed to fetch document")]
    /\ UNCHANGED <<db, vec, r2, issued, open>>

\* GET /:fileId/embeddings: vectors = await VECTORIZE.getByIds([fileId])
GetEmbeddings(i) ==
    /\ Free(i)
    /\ \E id \in Ids :
         LET r == [kind |-> "embeddings", fileId |-> id,
                   vectors |-> {rec \in vec : rec.id = id}]
         IN  \/ req' = [req EXCEPT ![i] =
                    IF r.vectors = {}
                    THEN Respond(r, 404, "Embeddings not found")
                    ELSE Respond(r, 200, CHOOSE rec \in r.vectors : TRUE)]
             \/ req' = [req EXCEPT ![i] =
                    Respond([r EXCEPT !.vectors = {}], 500, "Failed to fetch embeddings")]
    /\ UNCHANGED <<db, vec, r2, issued, open>>

(* ------------------------------------------------------ text extraction *)

\* new TextDecoder().decode(bytes): ASCII bytes decode to their character, a
\* byte that is no valid UTF-8 sequence to U+FFFD (written "?FFFD").
CharOf(b) ==
    CASE b = 97 -> "a"
      [] b = 98 -> "b"
      [] b = 60 -> "<"
      [] b = 62 -> ">"
      [] b = 47 -> "/"
      [] b = 99 -> "c"
      [] b = 105 -> "i"
      [] b = 112 -> "p"
      [] b = 114 -> "r"
      [] b = 115 -> "s"
      [] b = 116 -> "t"
      [] b = 120 -> "x"
      [] OTHER -> "?FFFD"

TextDecode(bytes) == [k \in 1..Len(bytes) |-> CharOf(bytes[k])]

\* A base64 string is the tuple <<"b64", bytes>> of the bytes it encodes; any
\* other content is malformed. atob throws on malformed content.
Base64(bytes) == <<"b64", bytes>>
Malformed == <<"%%", <<>>>>
IsBase64(content) == content[1] = "b64"
Atob(content) == content[2]

\* String.prototype.toLowerCase on the letters the model uses.
Lower(c) ==
    CASE c = "P" -> "p" [] c = "D" -> "d" [] c = "F" -> "f"
      [] c = "S" -> "s" [] c = "C" -> "c" [] c = "R" -> "r" [] c = "I" -> "i"
      [] c = "T" -> "t" [] c = "Y" -> "y" [] c = "L" -> "l" [] c = "E" -> "e"
      [] OTHER -> c

ToLowerCase(str) == [k \in DOMAIN str |-> Lower(str[k])]

\* String.prototype.endsWith
EndsWith(str, suffix) ==
    /\ Len(str) >= Len(suffix)
    /\ SubSeq(str, Len(str) - Len(suffix) + 1, Len(str)) = suffix

\* input.filename.toLowerCase().endsWith('.pdf')
IsPdfName(filename) == EndsWith(ToLowerCase(filename), <<".", "p", "d", "f">>)

\* ct.includes('application/pdf'), on the content types the model uses.
ContentTypes == {"", "text/html", "application/pdf", "application/pdf; charset=binary"}
IncludesPdf(ct) == ct \in {"application/pdf", "application/pdf; charset=binary"}

\* Whether the literal lit (given in lower case) occurs in str at position p,
\* ignoring case.
LitAt(str, p, lit) ==
    /\ p + Len(lit) - 1 <= Len(str)
    /\ \A k \in 1..Len(lit) : Lower(str[p + k - 1]) = lit[k]

\* The least position >= p at which ok holds, or 0.
First(positions) ==
    IF positions = {} THEN 0 ELSE CHOOSE q \in positions : \A o \in positions : q <= o

\* The end of the match of /<tag[^>]*>[\s\S]*?<\/tag>/i that starts at p, or 0:
\* the open tag runs to the first ">", the body to the first closing tag after it.
BlockEnd(str, p, tag) ==
    LET openLit == <<"<">> \o tag
        closeLit == <<"<", "/">> \o tag \o <<">">>
    IN  IF ~LitAt(str, p, openLit) THEN 0
        ELSE LET gt == First({q \in (p + Len(openLit))..Len(str) : str[q] = ">"})
             IN  IF gt = 0 THEN 0
                 ELSE LET cl == First({q \in (gt + 1)..Len(str) : LitAt(str, q, closeLit)})
                      IN  IF cl = 0 THEN 0 ELSE cl + Len(closeLit) - 1

\* The end of the match of /<[^>]+>/ that starts at p, or 0.
TagEnd(str, p) ==
    IF str[p] # "<" THEN 0
    ELSE LET gt == First({q \in (p + 1)..Len(str) : str[q] = ">"})
         IN  IF gt = 0 \/ gt = p + 1 THEN 0 ELSE gt

RECURSIVE ReplaceBlocks(_, _, _)
\* str.replace(/<tag[^>]*>[\s\S]*?<\/tag>/gi, ' ') from position p on
ReplaceBlocks(str, p, tag) ==
    IF p > Len(str) THEN <<>>
    ELSE LET e == BlockEnd(str, p, tag)
         IN  IF e = 0
             THEN <<str[p]>> \o ReplaceBlocks(str, p + 1, tag)
             ELSE <<" ">> \o ReplaceBlocks(str, e + 1, tag)

RECURSIVE ReplaceTags(_, _)
\* str.replace(/<[^>]+>/g, ' ') from position p on
ReplaceTags(str, p) ==
    IF p > Len(str) THEN <<>>
    ELSE LET e == TagEnd(str, p)
         IN  IF e = 0
             THEN <<str[p]>> \o ReplaceTags(str, p + 1)
             ELSE <<" ">> \o ReplaceTags(str, e + 1)

ScriptTag == <<"s", "c", "r", "i", "p", "t">>
StyleTag == <<"s", "t", "y", "l", "e">>

\* html.replace(script).replace(style).replace(tags)
StripHtml(html) ==
    ReplaceTags(ReplaceBlocks(ReplaceBlocks(html, 1, ScriptTag), 1, StyleTag), 1)

(* -------------------------------------------------------- POST /process *)

\* Decoded payloads of inline inputs and bodies of stored objects (bytes).
Payloads == {<<>>, <<97, 255>>}
\* Pages a URL serves or a browser renders.
Htmls == { <<"a">>,
           <<"<", "s", "c", "r", "i", "p", "t", ">", "x", "<", "/",
             "s", "c", "r", "i", "p", "t", ">", "<", "b", ">", "a">>,
           <<"<", "S", "T", "Y", "L", "E", " ", "a", ">", "x", "<", "b", ">", "\n", "x", ">",
             "<", "/", "s", "t", "y", "l", "e", ">", "a">> }
\* Texts the PDF extractor returns.
PdfTexts == {<<"a">>}

TxtName == <<"a", ".", "t", "x", "t">>
PdfName == <<"a", ".", "P", "D", "F">>

\* The bytes of the page <script>x</script>a
PageBytes == <<60, 115, 99, 114, 105, 112, 116, 62, 120,
               60, 47, 115, 99, 114, 105, 112, 116, 62, 97>>

\* The objects the bucket holds before any request: a text, a PDF stored with
\* its content type, a PDF stored without one, and an HTML page.
SourceObjects ==
    [k \in {<<"src.txt">>, <<"src.pdf">>, <<"raw.pdf">>, <<"page.html">>} |->
        CASE k = <<"src.txt">> -> [body |-> <<97, 255>>, contentType |-> ""]
          [] k = <<"src.pdf">> -> [body |-> <<97>>, contentType |-> "application/pdf"]
          [] k = <<"raw.pdf">> -> [body |-> <<97>>, contentType |-> ""]
          [] k = <<"page.html">> -> [body |-> PageBytes, contentType |-> "text/html"]]

\* A body without an input field: input is undefined.
NoInput == [type |-> "<no input>"]
\* A body that is no JSON: nothing is destructured from it.
NoJson == [type |-> "<no json>"]

\* input: Input, well formed or not: a known type with its fields, an inline
\* payload without its content field, an unknown type, no input at all.
Inputs ==
    {[type |-> "r2", key |-> k] : k \in DOMAIN SourceObjects \cup {<<"missing">>}}
    \cup {[type |-> "local", filename |-> f, content |-> c] :
              f \in {TxtName, PdfName},
              c \in {Base64(b) : b \in Payloads} \cup {Malformed}}
    \cup {[type |-> "local", filename |-> TxtName, content |-> Undefined]}
    \cup {[type |-> "url", url |-> "u", browser |-> b] : b \in BOOLEAN}
    \cup {[type |-> "ftp"], NoInput}

\* process?: Process; a missing object or field is its falsy value.
Processes ==
    [embeddings : BOOLEAN, rag_format : {"", "json", "markdown", "xml"}, summary : BOOLEAN]

\* output?: Output; "" stands for a missing or empty key.
Outputs == {"", "p"}

\* JSON.stringify({ text })
JsonText(text) == <<"{text:", text, "}">>
\* `# Extracted Text\n\n${text}`
MarkdownText(text) == <<"# Extracted Text\n\n", text>>

\* The summary the generative model returns for its input (opaque).
SummaryOf(content) == <<"summary", content>>

\* text.slice(0, 200_000)
Slice(text, n) == SubSeq(text, 1, Min(Len(text), n))

\* JavaScript truthiness of a result field.
Truthy(v) == v # Undefined /\ v # <<>>

\* c.json(result): fields whose value is undefined are left out.
JsonResult(result) ==
    [f \in {g \in DOMAIN result : result[g] # Undefined} |-> result[f]]

\* catch (err) { return c.json({ error: err?.message || 'Failed to process document' }, 500) }
ProcessFail(i, message) ==
    req' = [req EXCEPT ![i] =
        Respond(req[i], 500,
                [error |-> IF message = "" THEN "Failed to process document" ELSE message])]

\* The locals of the handler once the body has been destructured.
ProcessLocals(input, process, output) ==
    [kind |-> "process", pc |-> "source", input |-> input, process |-> process,
     output |-> output, text |-> <<>>, buf |-> <<>>, html |-> <<>>,
     result |-> [extracted_text |-> Undefined, embedding |-> Undefined,
                 rag |-> Undefined, summary |-> Undefined],
     browser |-> "none", puts |-> <<>>, aiCalls |-> <<>>, pdf |-> FALSE,
     sent |-> Undefined]

\* { input, process, output } = await c.req.json(), which is outside the try
\* block: when the body is no JSON the rejection leaves the handler, and the
\* framework answers 500 'Internal Server Error'.
ProcessStart(i) ==
    /\ Free(i)
    /\ \/ \E input \in Inputs, process \in Processes, output \in Outputs :
            req' = [req EXCEPT ![i] = ProcessLocals(input, process, output)]
       \/ req' = [req EXCEPT ![i] =
              Respond(ProcessLocals(NoJson,
                                    [embeddings |-> FALSE, rag_format |-> "", summary |-> FALSE],
                                    ""),
                      500, [text |-> "Internal Server Error"])]
    /\ UNCHANGED <<db, vec, r2, issued, open>>

\* Mutant of RagOf: every format other than json is rendered as markdown.
RagOfElseMarkdown(format, text) ==
    IF format = "json" THEN JsonText(text) ELSE MarkdownText(text)

\* if (process?.rag_format) result.rag = json | markdown | undefined
RagOf(format, text) ==
    IF format = "json" THEN JsonText(text)
    ELSE IF format = "markdown" THEN MarkdownText(text)
    ELSE Undefined

\* Whether a stage of the handler runs, in the handler's order of stages.
Stages == <<"embed", "summary", "putTxt", "putRag", "putSummary", "putEmbedding">>

Runs(r, stage) ==
    CASE stage = "embed" -> r.process.embeddings
      [] stage = "summary" -> r.process.summary
      [] stage = "putTxt" -> TRUE
      [] stage = "putRag" -> Truthy(r.result.rag)
      [] stage = "putSummary" -> Truthy(r.result.summary)
      [] stage = "putEmbedding" -> r.result.embedding # Undefined

StageNo(stage) == CHOOSE k \in DOMAIN Stages : Stages[k] = stage

\* The request after stage number k: at the next stage that runs, or responding
\* with the result when none is left.
Proceed(r, k) ==
    LET later == {n \in DOMAIN Stages : n > k /\ Runs(r, Stages[n])}
    IN  IF later = {}
        THEN Respond(r, 200, JsonResult(r.result))
        ELSE [r EXCEPT !.pc = Stages[First(later)]]

\* Mutant of WithRag: the rag document is built whether or not a format was
\* asked for, as JSON by default.
WithRagAlways(r) ==
    [r EXCEPT !.result.rag =
        IF r.process.rag_format = "markdown" THEN MarkdownText(r.text) ELSE JsonText(r.text)]

\* The rag branch is synchronous: it runs as soon as the embeddings branch is over.
WithRag(r) ==
    IF r.process.rag_format # ""
    THEN [r EXCEPT !.result.rag = RagOf(r.process.rag_format, r.text)]
    ELSE r

\* const result = { extracted_text: text }, then on to the branches
Extracted(r, text) ==
    LET r1 == [r EXCEPT !.text = text, !.result.extracted_text = text]
    IN  IF r1.process.embeddings THEN [r1 EXCEPT !.pc = "embed"] ELSE Proceed(WithRag(r1), 1)

\* The source is a PDF: its bytes go to extractTextFromPDF.
ToPdf(r, buf) == [r EXCEPT !.pc = "pdf", !.buf = buf, !.pdf = TRUE]

\* R2.get of a key the bucket does not hold resolves to null.
Null == [body |-> <<>>, contentType |-> "<null>"]

\* R2.get(key)
R2Get(key) == IF key \in DOMAIN r2 THEN r2[key] ELSE Null

\* Mutant of ObjectMissing: the null check is missing.
ObjectMissingNever(obj) == FALSE

\* if (!obj)
ObjectMissing(obj) == obj = Null

\* The first step of the source block, by input.type.
ProcessSource(i) ==
    /\ req[i].kind = "process" /\ req[i].pc = "source"
    /\ LET r == req[i]
           input == r.input
       IN  CASE input = NoInput ->
                  \* input.type of an undefined input throws a TypeError
                  /\ ProcessFail(i, "TypeError: input is undefined")
                  /\ UNCHANGED open
             [] input.type = "r2" ->
                  \* obj = await R2.get(input.key); if (!obj) 404
                  /\ \/ LET obj == R2Get(input.key)
                        IN  IF ObjectMissing(obj)
                            THEN req' = [req EXCEPT ![i] =
                                     Respond(r, 404, [error |-> "Object not found"])]
                            ELSE IF obj = Null
                            THEN \* obj.arrayBuffer() of null throws a TypeError
                                 ProcessFail(i, "TypeError: obj is null")
                            ELSE req' = [req EXCEPT ![i] =
                                     IF IncludesPdf(obj.contentType)
                                     THEN ToPdf(r, obj.body)
                                     ELSE Extracted(r, TextDecode(obj.body))]
                     \/ ProcessFail(i, "r2 get failed")
                  /\ UNCHANGED open
             [] input.type = "local" ->
                  \* bytes = Uint8Array.from(atob(input.content), ...)
                  /\ IF ~IsBase64(input.content)
                     THEN ProcessFail(i, "atob failed")
                     ELSE req' = [req EXCEPT ![i] =
                              IF IsPdfName(input.filename)
                              THEN ToPdf(r, Atob(input.content))
                              ELSE Extracted(r, TextDecode(Atob(input.content)))]
                  /\ UNCHANGED open
             [] input.type = "url" /\ input.browser ->
                  \* browser = await puppeteer.launch(c.env.MYBROWSER)
                  \/ /\ req' = [req EXCEPT ![i].pc = "newPage", ![i].browser = "open"]
                     /\ open' = open \cup {i}
                  \/ /\ ProcessFail(i, "launch failed")
                     /\ UNCHANGED open
             [] input.type = "url" /\ ~input.browser ->
                  \* resp = await fetch(input.url); ct = resp.headers.get('content-type') || ''
                  /\ \/ \E ct \in ContentTypes :
                          IF IncludesPdf(ct)
                          THEN \E b \in Payloads :
                                 req' = [req EXCEPT ![i] = ToPdf(r, b)]
                          ELSE \E h \in Htmls :
                                 req' = [req EXCEPT ![i].pc = "respText", ![i].html = h]
                     \/ ProcessFail(i, "fetch failed")
                  /\ UNCHANGED open
             [] OTHER ->
                  /\ req' = [req EXCEPT ![i] =
                         Respond(r, 400, [error |-> "Invalid input.type"])]
                  /\ UNCHANGED open
    /\ UNCHANGED <<db, vec, r2, issued>>

\* text = await extractTextFromPDF(buf)
ExtractTextFromPDF(i) ==
    /\ req[i].kind = "process" /\ req[i].pc = "pdf"
    /\ \/ \E t \in PdfTexts : req' = [req EXCEPT ![i] = Extracted(req[i], t)]
       \/ ProcessFail(i, "pdf extraction failed")
    /\ UNCHANGED <<db, vec, r2, issued, open>>

\* html = await resp.text(); text = html.replace(...)
ProcessRespText(i) ==
    /\ req[i].kind = "process" /\ req[i].pc = "respText"
    /\ \/ req' = [req EXCEPT ![i] = Extracted(req[i], StripHtml(req[i].html))]
       \/ ProcessFail(i, "body read failed")
    /\ UNCHANGED <<db, vec, r2, issued, open>>

\* page = await browser.newPage()
BrowserNewPage(i) ==
    /\ req[i].kind = "process" /\ req[i].pc = "newPage"
    /\ \/ req' = [req EXCEPT ![i].pc = "goto"]
       \/ ProcessFail(i, "newPage failed")
    /\ UNCHANGED <<db, vec, r2, issued, open>>

\* await page.goto(input.url, { waitUntil: 'networkidle0' })
BrowserGoto(i) ==
    /\ req[i].kind = "process" /\ req[i].pc = "goto"
    /\ \/ req' = [req EXCEPT ![i].pc = "content"]
       \/ ProcessFail(i, "navigation failed")
       \/ ProcessFail(i, "navigation timeout")
    /\ UNCHANGED <<db, vec, r2, issued, open>>

\* html = await page.content()
BrowserContent(i) ==
    /\ req[i].kind = "process" /\ req[i].pc = "content"
    /\ \/ \E h \in Htmls : req' = [req EXCEPT ![i].pc = "close", ![i].html = h]
       \/ ProcessFail(i, "content failed")
    /\ UNCHANGED <<db, vec, r2, issued, open>>

\* await browser.close(); text = html.replace(...)
BrowserClose(i) ==
    /\ req[i].kind = "process" /\ req[i].pc = "close"
    /\ \/ /\ open' = open \ {i}
          /\ req' = [req EXCEPT ![i] =
                 Extracted([req[i] EXCEPT !.browser = "closed"], StripHtml(req[i].html))]
       \/ /\ ProcessFail(i, "close failed")
          /\ UNCHANGED open
    /\ UNCHANGED <<db, vec, r2, issued>>

\* { data } = await AI.run(bge, { text: [text] }); result.embedding = data[0]
ProcessEmbed(i) ==
    /\ req[i].kind = "process" /\ req[i].pc = "embed"
    /\ LET r == [req[i] EXCEPT !.aiCalls = Append(@, "embed")]
       IN  \/ req' = [req EXCEPT ![i] =
                  Proceed(WithRag([r EXCEPT !.result.embedding = EmbOf(r.text)]), 1)]
           \/ req' = [req EXCEPT ![i] = Proceed(WithRag(r), 1)]
           \/ req' = [req EXCEPT ![i] = Respond(r, 500, [error |-> "embedding failed"])]
    /\ UNCHANGED <<db, vec, r2, issued, open>>

\* Mutant of SummaryInput: the whole text is submitted.
SummaryInputWhole(text) == text

\* The text the summary branch submits: text.slice(0, 200_000)
SummaryInput(text) == Slice(text, SummaryBudget)

\* { response: summary } = await AI.run(llama, { messages }); result.summary = summary
ProcessSummary(i) ==
    /\ req[i].kind = "process" /\ req[i].pc = "summary"
    /\ LET r == [req[i] EXCEPT !.aiCalls = Append(@, "summary"),
                               !.sent = SummaryInput(req[i].text)]
       IN  \/ req' = [req EXCEPT ![i] =
                  Proceed([r EXCEPT !.result.summary = SummaryOf(r.sent)], 2)]
           \/ req' = [req EXCEPT ![i] = Respond(r, 500, [error |-> "summary failed"])]
    /\ UNCHANGED <<db, vec, r2, issued, open>>

\* prefix = output?.key || 'output'
Prefix(output) == IF output = "" THEN "output" ELSE output

\* Mutant of PutOf: the text artifact is always put under the default prefix.
PutOfDefaultPrefix(r, stage) ==
    LET prefix == Prefix(r.output)
    IN  CASE stage = "putTxt" -> [key |-> <<"output", "txt">>, body |-> r.text]
          [] stage = "putRag" ->
               [key |-> <<prefix, IF r.process.rag_format = "json" THEN "rag.json" ELSE "rag.md">>,
                body |-> r.result.rag]
          [] stage = "putSummary" -> [key |-> <<prefix, "summary.txt">>, body |-> r.result.summary]
          [] stage = "putEmbedding" ->
               [key |-> <<prefix, "embedding.json">>, body |-> r.result.embedding]

\* The key and the body of the object a put stage writes.
PutOf(r, stage) ==
    LET prefix == Prefix(r.output)
    IN  CASE stage = "putTxt" -> [key |-> <<prefix, "txt">>, body |-> r.text]
          [] stage = "putRag" ->
               [key |-> <<prefix, IF r.process.rag_format = "json" THEN "rag.json" ELSE "rag.md">>,
                body |-> r.result.rag]
          [] stage = "putSummary" -> [key |-> <<prefix, "summary.txt">>, body |-> r.result.summary]
          [] stage = "putEmbedding" ->
               [key |-> <<prefix, "embedding.json">>, body |-> r.result.embedding]

\* Mutant of PutFailed: a failed artifact write is logged and the handler
\* answers with the result all the same.
PutFailedIgnored(r) == Respond(r, 200, JsonResult(r.result))

\* A put that throws goes to the catch of the handler.
PutFailed(r) == Respond(r, 500, [error |-> "r2 put failed"])

\* await R2.put(`${prefix}...`, ...): one of the four artifact writes
ProcessPut(i) ==
    /\ req[i].kind = "process"
    /\ req[i].pc \in {"putTxt", "putRag", "putSummary", "putEmbedding"}
    /\ LET put == PutOf(req[i], req[i].pc)
       IN  \/ /\ r2' = [k \in DOMAIN r2 \cup {put.key} |->
                          IF k = put.key
                          THEN [body |-> put.body, contentType |-> ""]
                          ELSE r2[k]]
              /\ req' = [req EXCEPT ![i] =
                     Proceed([req[i] EXCEPT !.puts = Append(@, [key |-> put.key, ok |-> TRUE])],
                             StageNo(req[i].pc))]
           \/ /\ req' = [req EXCEPT ![i] =
                     PutFailed([req[i] EXCEPT !.puts = Append(@, [key |-> put.key, ok |-> FALSE])])]
              /\ UNCHANGED r2
    /\ UNCHANGED <<db, vec, issued, open>>

Process(i) ==
    \/ ProcessStart(i)
    \/ ProcessSource(i)
    \/ ExtractTextFromPDF(i)
    \/ ProcessRespText(i)
    \/ BrowserNewPage(i)
    \/ BrowserGoto(i)
    \/ BrowserContent(i)
    \/ BrowserClose(i)
    \/ ProcessEmbed(i)
    \/ ProcessSummary(i)
    \/ ProcessPut(i)

(* ------------------------------------------------------- specifications *)

Init ==
    /\ req = [i \in Reqs |-> Idle]
    /\ db = {}
    /\ vec = {}
    /\ r2 = <<>>
    /\ issued = {}
    /\ open = {}

Next ==
    \E i \in Reqs :
        \/ Upload(i)
        \/ Ask(i)
        \/ Semantic(i)
        \/ Landing(i)
        \/ GetDocument(i)
        \/ GetEmbeddings(i)

Spec == Init /\ [][Next]_vars

\* The retrieval handler against arbitrary contents of the two stores it reads:
\* the documents table holds at most one row per id, the index any records
\* (several records may carry the same metadata fileId).
StoredRows == {Row(id, "a.txt", <<"upload", id, "a.txt">>, t) : id \in Ids, t \in Texts}
StoredRecords == {[id |-> id, values |-> EmbOf(<<"a">>), fileId |-> f] : id \in Ids, f \in Ids}

InitStores ==
    /\ req = [i \in Reqs |-> Idle]
    /\ db \in {d \in SUBSET StoredRows : \A x, y \in d : x.id = y.id => x = y}
    /\ vec \in SUBSET StoredRecords
    /\ r2 = <<>>
    /\ issued = Ids
    /\ open = {}

\* One ingestion request against a bucket that holds the source objects.
InitProcess ==
    /\ req = [i \in Reqs |-> Idle]
    /\ db = {}
    /\ vec = {}
    /\ r2 = SourceObjects
    /\ issued = {}
    /\ open = {}

NextProcess == Process(1)

SpecProcess == InitProcess /\ [][NextProcess]_vars

\* One ingestion request and, once it has arrived, one ask, against a table that
\* is empty or holds the row of an earlier upload.
InitRoundTrip ==
    /\ req = [i \in Reqs |-> Idle]
    /\ db \in {{}, {Row(1, "a.txt", <<"upload", 1, "a.txt">>, <<"a">>)}}
    /\ vec = {}
    /\ r2 = SourceObjects
    /\ issued = {row.id : row \in db}
    /\ open = {}

NextRoundTrip == Process(1) \/ Ask(2)

SpecRoundTrip == InitRoundTrip /\ [][NextRoundTrip]_vars

\* The two ingestion routes side by side: one upload and one POST /process.
NextIngest == Upload(1) \/ Process(2)

SpecIngest == InitProcess /\ [][NextIngest]_vars

\* text.slice(0, 200_000) on its own, applied to texts of a few characters and
\* to texts around the summary budget. Only the length of the text and what
\* the slice was found to be are kept in the state.
SummaryLengths ==
    (0..MaxShortLen)
    \cup {SummaryBudget - 1, SummaryBudget, SummaryBudget + 1, 2 * SummaryBudget}

\* A text of n characters whose first and last character differ from the rest.
TextOfLength(n) ==
    [k \in 1..n |-> IF k = 1 THEN "b" ELSE IF k = n THEN "c" ELSE "a"]

\* A text of some length reaches the summary branch.
SummarySliceStart ==
    /\ Free(1)
    /\ \E n \in SummaryLengths :
         req' = [req EXCEPT ![1] = [kind |-> "slice", pc |-> "slice", len |-> n,
                                    sentLen |-> 0, sentIsPrefix |-> FALSE,
                                    sentIsWhole |-> FALSE]]
    /\ UNCHANGED <<db, vec, r2, issued, open>>

\* content: text.slice(0, 200_000)
SummarySlice ==
    /\ req[1].kind = "slice" /\ req[1].pc = "slice"
    /\ LET text == TextOfLength(req[1].len)
           sent == SummaryInput(text)
       IN  req' = [req EXCEPT ![1].pc = "sliced",
                              ![1].sentLen = Len(sent),
                              ![1].sentIsPrefix = (sent = SubSeq(text, 1, Len(sent))),
                              ![1].sentIsWhole = (sent = text)]
    /\ UNCHANGED <<db, vec, r2, issued, open>>

NextSlice == SummarySliceStart \/ SummarySlice

SpecSlice == Init /\ [][NextSlice]_vars

\* An earlier POST /process that succeeded: an inline text payload with every
\* directive set and no output key, as the handler held it when it responded.
EarlierRequest ==
    LET text == TextDecode(<<97, 255>>)
    IN  [ProcessLocals([type |-> "local", filename |-> TxtName,
                        content |-> Base64(<<97, 255>>)],
                       [embeddings |-> TRUE, rag_format |-> "json", summary |-> TRUE],
                       "")
            EXCEPT !.text = text,
                   !.sent = SummaryInput(text),
                   !.result = [extracted_text |-> text,
                               embedding |-> EmbOf(text),
                               rag |-> RagOf("json", text),
                               summary |-> SummaryOf(SummaryInput(text))]]

\* The objects the earlier request has put under its prefix.
EarlierArtifacts ==
    LET puts == {PutOf(EarlierRequest, stage) :
                    stage \in {"putTxt", "putRag", "putSummary", "putEmbedding"}}
    IN  [k \in {put.key : put \in puts} |->
            [body |-> (CHOOSE put \in puts : put.key = k).body, contentType |-> ""]]

\* One ingestion request against a bucket that holds the source objects and the
\* artifacts of the earlier request.
InitRerun ==
    /\ req = [i \in Reqs |-> Idle]
    /\ db = {}
    /\ vec = {}
    /\ r2 = [k \in DOMAIN SourceObjects \cup DOMAIN EarlierArtifacts |->
                IF k \in DOMAIN EarlierArtifacts THEN EarlierArtifacts[k] ELSE SourceObjects[k]]
    /\ issued = {}
    /\ open = {}

NextRerun == Process(1)

SpecRerun == InitRerun /\ [][NextRerun]_vars

\* The stores after one upload of a text file: its original object, its row
\* and its record.
UploadedFile == [name |-> "a.txt", type |-> "text/plain", body |-> <<97>>]
UploadedKey == <<"upload", 1, "a.txt">>

\* One ingestion request and, once it has arrived, one request to a route that
\* reads a document, against the stores after one upload.
InitFrame ==
    /\ req = [i \in Reqs |-> Idle]
    /\ db = {Row(1, "a.txt", UploadedKey, <<"a">>)}
    /\ vec = {[id |-> 1, values |-> EmbOf(<<"a">>), fileId |-> 1]}
    /\ r2 = [k \in DOMAIN SourceObjects \cup {UploadedKey} |->
                IF k = UploadedKey
                THEN [body |-> UploadedFile.body, contentType |-> UploadedFile.type]
                ELSE SourceObjects[k]]
    /\ issued = {1}
    /\ open = {}

NextFrame ==
    \/ Process(1)
    \/ Ask(2)
    \/ Semantic(2)
    \/ GetDocument(2)
    \/ GetEmbeddings(2)

SpecFrame == InitFrame /\ [][NextFrame]_vars

NextSemantic == Semantic(1)

SpecSemantic == InitStores /\ [][NextSemantic]_vars

(* =============================================================== claims *)

\* The locals of request i, also after it has responded.
Loc(i) == IF req[i].pc = "done" THEN req[i].in ELSE req[i]

IsKind(i, k) == req[i].kind = k

\* An upload that got past the file check: it has a fileId.
IsUploadOf(i) == IsKind(i, "upload") /\ (Done(i) => req[i].status # 400)

HasRow(id) == \E row \in db : row.id = id
HasRecord(id) == \E rec \in vec : rec.id = id

\* The summary call of request i was made and threw.
SummaryFailed(i) ==
    /\ IsKind(i, "process") /\ Done(i)
    /\ Loc(i).pc = "summary"
    /\ Loc(i).result.summary = Undefined

\* C1 (as claimed): when the summary call fails after the embedding has been
\* computed, the request still succeeds, with extracted_text and the embedding.
C1_SummaryFailureKeepsEmbedding ==
    \A i \in Reqs :
        (SummaryFailed(i) /\ Loc(i).result.embedding # Undefined) =>
            /\ req[i].status = 200
            /\ req[i].body.extracted_text = Loc(i).text
            /\ req[i].body.embedding = Loc(i).result.embedding

\* C2 (as claimed, for POST /): when the text-extraction call of an upload
\* returns no result, the upload writes no Document row.
C2_NoExtractionNoRow ==
    \A i \in Reqs :
        (IsUploadOf(i) /\ Loc(i).md = "none") => ~HasRow(Loc(i).fileId)

\* The rest of C2, which holds. POST /process (under SpecProcess): as long as no
\* text has been extracted, nothing has been written, and a request that ends
\* there ends with an error response.
ThrowingSourcePersistsNothing ==
    \A i \in Reqs :
        (IsKind(i, "process") /\ Loc(i).result.extracted_text = Undefined) =>
            /\ r2 = SourceObjects /\ db = {} /\ vec = {}
            /\ Done(i) => req[i].status \in {400, 404, 500}

\* POST / (under Spec): an upload whose toMarkdown call threw has no row.
ThrowingExtractionLeavesNoRow ==
    \A i \in Reqs :
        (IsUploadOf(i) /\ Done(i) /\ Loc(i).md = "pending") =>
            req[i].status = 500 /\ ~HasRow(Loc(i).fileId)

\* C3 (as claimed): an upload that ended with the 500 response leaves no
\* Document row for its id.
C3_FailedUploadLeavesNoRow ==
    \A i \in Reqs :
        (IsUploadOf(i) /\ Done(i) /\ req[i].status = 500) => ~HasRow(Loc(i).fileId)

C5_BrowserClosedAtEnd ==
    \A i \in Reqs : (IsKind(i, "process") /\ Done(i)) => i \notin open

\* C6: every match a semantic search for document D gets from the index carries
\* metadata fileId = D, and every record of the index carries its own id as
\* metadata fileId.
C6_SearchIsScoped ==
    /\ \A rec \in vec : rec.fileId = rec.id
    /\ \A i \in Reqs :
         IsKind(i, "semantic") =>
             \A k \in DOMAIN Loc(i).matches :
                 Loc(i).matches[k].fileId = Loc(i).fileId

\* C6 witness: a search for D has answered while the index holds a record of
\* another document.
C6_Witness ==
    \E i \in Reqs :
        /\ IsKind(i, "semantic") /\ Done(i) /\ req[i].status = 200
        /\ \E rec \in vec : rec.fileId # Loc(i).fileId

\* C7: an ask whose select finds no row for the path's id answers 404
\* 'Document not found' and never calls the generative model.
C7_AskUnknownIs404 ==
    \A i \in Reqs :
        (IsKind(i, "ask") /\ Loc(i).selected /\ Loc(i).rows = {}) =>
            /\ Done(i)
            /\ req[i].status = 404
            /\ req[i].body = "Document not found"
            /\ Loc(i).genCalls = 0

\* C7 witness: an ask for an id without a row has answered, while another
\* document exists.
C7_Witness ==
    \E i \in Reqs :
        /\ IsKind(i, "ask") /\ Done(i) /\ req[i].status = 404
        /\ Loc(i).selected /\ Loc(i).rows = {}
        /\ db # {}

\* C8 (as claimed): a semantic search for an id that has no Document row does
\* not end with a success response.
C8_SemanticUnknownIsNotSuccess ==
    \A i \in Reqs :
        (IsKind(i, "semantic") /\ Done(i) /\ ~HasRow(Loc(i).fileId)) =>
            req[i].status # 200

\* The text the documents table holds for an id, if any.
StoredText(id) == {row.extracted_text : row \in {x \in db : x.id = id}}

Answered(i) == IsKind(i, "semantic") /\ Done(i) /\ req[i].status = 200

\* C9: a successful semantic response has exactly one chunk per match; a chunk is
\* the stored text of the matched id when a row exists for it, and the sentinel
\* 'not found' exactly when none does.
C9_OneChunkPerMatch ==
    \A i \in Reqs :
        Answered(i) =>
            /\ Len(req[i].body.chunks) = Len(Loc(i).matches)
            /\ \A k \in DOMAIN Loc(i).matches :
                 LET id == Loc(i).matches[k].id
                     chunk == req[i].body.chunks[k].text
                 IN  /\ HasRow(id) => chunk \in StoredText(id)
                     /\ (chunk = NotFoundText) <=> ~HasRow(id)

\* C9 witness: a response with two chunks, one a stored text (the empty one) and
\* one the sentinel.
C9_Witness ==
    \E i \in Reqs :
        /\ Answered(i)
        /\ \E a, b \in DOMAIN Loc(i).matches :
             /\ HasRow(Loc(i).matches[a].id)
             /\ req[i].body.chunks[a].text = <<>>
             /\ ~HasRow(Loc(i).matches[b].id)
             /\ req[i].body.chunks[b].text = NotFoundText

\* The chunk sequence the ranking order of the matches calls for.
RankedChunks(matches) ==
    [k \in DOMAIN matches |->
        IF HasRow(matches[k].id)
        THEN [text |-> CHOOSE t \in StoredText(matches[k].id) : TRUE]
        ELSE [text |-> NotFoundText]]

\* C10: all lookups are in flight together, and whatever the order in which they
\* complete, the chunks of the response follow the ranking order of the matches.
C10_ChunksInRankingOrder ==
    \A i \in Reqs :
        IsKind(i, "semantic") =>
            /\ (~Done(i) /\ req[i].pc = "lookup") =>
                   Loc(i).pending \cup {Loc(i).order[k] : k \in DOMAIN Loc(i).order}
                       = DOMAIN Loc(i).matches
            /\ Answered(i) => req[i].body.chunks = RankedChunks(Loc(i).matches)

\* C10 witness: the lookups completed in an order other than the ranking order,
\* and the chunks differ from each other.
C10_Witness ==
    \E i \in Reqs :
        /\ Answered(i)
        /\ Len(Loc(i).order) >= 2
        /\ Loc(i).order[1] > Loc(i).order[2]
        /\ req[i].body.chunks[1] # req[i].body.chunks[2]

\* C11: an ask for an existing document calls the generative model exactly once,
\* with the message list built from the document's whole stored text and the
\* caller's question, and its success response carries the model's answer to
\* that message list, unchanged, as response.
C11_AskSendsWholeText ==
    \A i \in Reqs :
        (IsKind(i, "ask") /\ Done(i) /\ Loc(i).selected /\ Loc(i).rows # {}) =>
            /\ req[i].status \in {200, 500}
            /\ Loc(i).genCalls = 1
            /\ \E text \in StoredText(Loc(i).fileId) :
                 /\ Loc(i).messages = AskMessages(text, Loc(i).query)
                 /\ Loc(i).messages[2].content[2] = text
                 /\ Len(Loc(i).messages[2].content[2]) = Len(text)
            /\ req[i].status = 200 => req[i].body = [response |-> Answer(Loc(i).messages)]

\* C11 witness: an ask for a document with a non-empty stored text has been
\* answered with the model's response.
C11_Witness ==
    \E i \in Reqs :
        /\ IsKind(i, "ask") /\ Done(i) /\ req[i].status = 200
        /\ Loc(i).genCalls = 1
        /\ <<"a">> \in StoredText(Loc(i).fileId)

\* C13: in every step of every route, each Document row of the table is still
\* there afterwards with the same id, name, object key and extracted text, and
\* no two rows of the table share an id.
C13_RowsAreImmutable ==
    [][/\ \A row \in db : row \in db'
       /\ \A x, y \in db' : x.id = y.id => x = y]_vars

\* C13 witness: two uploads have each written their row and have ended, one of
\* them with an error response.
C13_Witness ==
    /\ Cardinality(db) = 2
    /\ \A i \in Reqs : IsUploadOf(i) /\ Done(i) /\ HasRow(Loc(i).fileId)
    /\ \E i \in Reqs : req[i].status = 500

\* The plain text of an inline payload: the decoded bytes of its content.
InlineText(input) == TextDecode(Atob(input.content))

\* Request i is a POST /process of an inline plain-text payload that succeeded.
IngestedInline(i) ==
    /\ IsKind(i, "process") /\ Done(i) /\ req[i].status = 200
    /\ Loc(i).input.type = "local" /\ ~IsPdfName(Loc(i).input.filename)

\* C12 (as claimed): once an inline plain-text payload with content T has been
\* ingested, there is a document holding T, and an ask against that document
\* reaches the generative model with context exactly T.
C12_InlineRoundTrip ==
    \A i \in Reqs :
        IngestedInline(i) =>
            \E row \in db :
                /\ row.extracted_text = InlineText(Loc(i).input)
                /\ \A j \in Reqs :
                     (IsKind(j, "ask") /\ Loc(j).fileId = row.id /\ Loc(j).genCalls > 0) =>
                         Loc(j).messages[2].content[2] = InlineText(Loc(i).input)

\* The store writes request i has attempted so far, in order, each with its
\* outcome: the R2 puts of POST /process, the three store writes of POST /.
WriteLog(i) == IF IsKind(i, "process") THEN Loc(i).puts ELSE Loc(i).writes

\* C14: within one ingestion request every store write is attempted at most
\* once, and a store write that fails is the request's last: the request has
\* ended with a 5xx response.
C14_FailedWriteEnds5xx ==
    \A i \in Reqs :
        (IsKind(i, "process") \/ IsKind(i, "upload")) =>
            LET log == WriteLog(i)
            IN  /\ \A a, b \in DOMAIN log : a # b => log[a].key # log[b].key
                /\ \A a \in DOMAIN log :
                     ~log[a].ok =>
                         /\ a = Len(log)
                         /\ Done(i)
                         /\ req[i].status \in 500..599

\* C14 witness: an upload whose Vectorize insert failed after its D1 insert, and
\* a POST /process whose second put failed after its first, have both ended.
C14_Witness ==
    \E i, j \in Reqs :
        /\ IsKind(i, "upload") /\ Done(i)
        /\ Len(WriteLog(i)) = 3 /\ ~WriteLog(i)[3].ok
        /\ IsKind(j, "process") /\ Done(j)
        /\ Len(WriteLog(j)) >= 2 /\ ~WriteLog(j)[Len(WriteLog(j))].ok
        /\ Loc(j).result.extracted_text # Undefined

\* A backend call of request i has failed or returned no result: the select of
\* the landing page threw, the extraction call of an upload returned no result,
\* or its embedding call returned no vector.
BackendGaveNothing(i) ==
    \/ IsKind(i, "landing") /\ Loc(i).dbFailed
    \/ /\ IsUploadOf(i)
       /\ \/ Loc(i).md = "none"
          \/ Loc(i).pc \in {"dbInsert", "vecInsert"} /\ Loc(i).embedding = Undefined

\* C15 (as claimed): a request one of whose backend calls failed or returned no
\* result does not end with a 2xx response.
C15_NoFailureBecomesSuccess ==
    \A i \in Reqs :
        (Done(i) /\ BackendGaveNothing(i)) => req[i].status \notin 200..299

\* C16 (as claimed, for POST /process): a request whose source is a backend (the
\* object store or a URL) and that ended with a 5xx response carries the
\* handler's fixed generic message, whatever failed.
C16_FailureMessageIsGeneric ==
    \A i \in Reqs :
        (/\ IsKind(i, "process") /\ Done(i)
         /\ Loc(i).input.type \in {"r2", "url"}
         /\ req[i].status \in 500..599) =>
            req[i].body = [error |-> "Failed to process document"]

\* The rest of C16, which holds (under Spec): the 5xx responses of upload, ask,
\* semantic and the GET routes carry one fixed message per route.
OtherRoutesFailGenerically ==
    \A i \in Reqs :
        (Done(i) /\ req[i].status \in 500..599) =>
            req[i].body =
                CASE IsKind(i, "upload") -> "Failed to upload and process file"
                  [] IsKind(i, "ask") -> "Failed to process query"
                  [] IsKind(i, "semantic") -> "Failed to perform semantic search"
                  [] IsKind(i, "document") -> "Failed to fetch document"
                  [] IsKind(i, "embeddings") -> "Failed to fetch embeddings"

\* A descriptor POST /process cannot act on: a body that is no JSON, a body
\* without input, an unknown input.type, an inline payload without content.
MalformedDescriptor(input) ==
    \/ input \in {NoJson, NoInput}
    \/ input.type \notin {"r2", "local", "url", NoJson.type, NoInput.type}
    \/ input.type = "local" /\ input.content = Undefined

\* C17 (as claimed): POST /process answers a malformed descriptor with a 4xx
\* response, having accessed no store and called no model.
C17_MalformedDescriptorIs4xx ==
    \A i \in Reqs :
        (IsKind(i, "process") /\ Done(i) /\ MalformedDescriptor(Loc(i).input)) =>
            /\ req[i].status \in 400..499
            /\ Loc(i).puts = <<>> /\ Loc(i).aiCalls = <<>>
            /\ r2 = SourceObjects

\* C18 (as claimed): an inline payload whose content is not valid base64 is
\* answered with a 4xx response, and nothing is written.
C18_InvalidBase64Is4xx ==
    \A i \in Reqs :
        (/\ IsKind(i, "process") /\ Done(i)
         /\ Loc(i).input.type = "local"
         /\ Loc(i).input.content = Malformed) =>
            /\ req[i].status \in 400..499
            /\ Loc(i).puts = <<>>
            /\ r2 = SourceObjects /\ db = {} /\ vec = {}

\* C19: a POST /process whose stored-object key is absent from the bucket calls
\* no model and writes no object, and when R2.get has returned it has ended
\* with 404 'Object not found'.
C19_AbsentObjectIs404 ==
    \A i \in Reqs :
        (/\ IsKind(i, "process")
         /\ Loc(i).input.type = "r2"
         /\ Loc(i).input.key \notin DOMAIN r2) =>
            /\ Loc(i).aiCalls = <<>> /\ Loc(i).puts = <<>>
            /\ r2 = SourceObjects
            /\ Done(i) =>
                 \/ req[i].status = 404 /\ req[i].body = [error |-> "Object not found"]
                 \/ req[i].status = 500 /\ req[i].body = [error |-> "r2 get failed"]

\* C19 witness: a request for an absent key that asked for an embedding, a rag
\* document and a summary has been answered 404.
C19_Witness ==
    \E i \in Reqs :
        /\ IsKind(i, "process") /\ Done(i) /\ req[i].status = 404
        /\ Loc(i).input.type = "r2" /\ Loc(i).input.key \notin DOMAIN r2
        /\ Loc(i).process.embeddings /\ Loc(i).process.summary
        /\ Loc(i).process.rag_format = "json"

\* The body of a retrieval request carries no usable query: it is no JSON, or
\* its query is missing or empty.
NoQuery(body) == ~body.json \/ body.fields = <<>> \/ body.fields = <<"">>

\* C20: an ask or a semantic search whose body is no JSON or has no query, or an
\* empty one, has answered 400 'Query not provided' without a call to the
\* database, the index or a model; an upload whose form has no file has answered
\* 400 'File not provided' without a write to a store.
C20_MissingQueryOrFileIs400 ==
    \A i \in Reqs :
        /\ (IsKind(i, "ask") /\ NoQuery(Loc(i).body)) =>
               /\ Done(i) /\ req[i].status = 400 /\ req[i].body = "Query not provided"
               /\ ~Loc(i).selected /\ Loc(i).genCalls = 0
        /\ (IsKind(i, "semantic") /\ NoQuery(Loc(i).body)) =>
               /\ Done(i) /\ req[i].status = 400 /\ req[i].body = "Query not provided"
               /\ Loc(i).aiCalls = 0 /\ Loc(i).queryEmbedding = Undefined
               /\ Loc(i).matches = <<>> /\ Loc(i).order = <<>>
        /\ (IsKind(i, "upload") /\ Loc(i).file = NoFile) =>
               /\ Done(i) /\ req[i].status = 400 /\ req[i].body = "File not provided"
               /\ Loc(i).writes = <<>>

\* C20 witness: an ask whose body is no JSON has been answered 400 although the
\* document it names exists.
C20_Witness ==
    \E i \in Reqs :
        /\ IsKind(i, "ask") /\ Done(i) /\ req[i].status = 400
        /\ ~Loc(i).body.json
        /\ HasRow(Loc(i).fileId)

\* The embedding call of POST /process request i returned a batch without a
\* vector: the call was made, did not throw, and left no embedding.
EmbeddingCameEmpty(i) ==
    /\ IsKind(i, "process")
    /\ \E k \in DOMAIN Loc(i).aiCalls : Loc(i).aiCalls[k] = "embed"
    /\ Loc(i).pc # "embed"
    /\ Loc(i).result.embedding = Undefined

\* C21 (as claimed, for POST /process): a request whose embedding call returned
\* no vector does not end with a success response.
C21_NoVectorIsAnError ==
    \A i \in Reqs :
        (Done(i) /\ EmbeddingCameEmpty(i)) => req[i].status \notin 200..299

\* Request i is a POST /process that has answered with its result.
Processed(i) == IsKind(i, "process") /\ Done(i) /\ req[i].status = 200

\* C22: a successful POST /process response carries extracted_text, the text
\* the request extracted, and an embedding, rag or summary field only if the
\* directive of that field was set; without any directive the response is
\* exactly { extracted_text } (for an inline text payload, its decoded bytes)
\* and no model was called.
C22_FieldsFollowDirectives ==
    \A i \in Reqs :
        Processed(i) =>
            LET body == req[i].body
                process == Loc(i).process
            IN  /\ "extracted_text" \in DOMAIN body
                /\ body.extracted_text = Loc(i).text
                /\ "embedding" \in DOMAIN body => process.embeddings
                /\ "rag" \in DOMAIN body => process.rag_format # ""
                /\ "summary" \in DOMAIN body => process.summary
                /\ (~process.embeddings /\ process.rag_format = "" /\ ~process.summary) =>
                       /\ DOMAIN body = {"extracted_text"}
                       /\ Loc(i).aiCalls = <<>>
                       /\ (Loc(i).input.type = "local" /\ ~Loc(i).pdf) =>
                              body = [extracted_text |-> TextDecode(Atob(Loc(i).input.content))]

\* C22 witness: an inline text payload without directives has been answered
\* with its decoded, non-empty text alone.
C22_Witness ==
    \E i \in Reqs :
        /\ Processed(i)
        /\ Loc(i).input.type = "local"
        /\ req[i].body = [extracted_text |-> <<"a", "?FFFD">>]

\* The keys of the rag artifacts a request can write.
RagKeys(r) == {<<Prefix(r.output), "rag.json">>, <<Prefix(r.output), "rag.md">>}

\* C23: the rag field of a successful POST /process response follows
\* process.rag_format alone: json gives the one-field object of the text,
\* markdown the text under a heading, and any other or no format gives no rag
\* field and no attempt to write a rag artifact.
C23_RagFollowsFormat ==
    \A i \in Reqs :
        Processed(i) =>
            LET body == req[i].body
                format == Loc(i).process.rag_format
            IN  /\ format = "json" =>
                       "rag" \in DOMAIN body /\ body.rag = JsonText(Loc(i).text)
                /\ format = "markdown" =>
                       "rag" \in DOMAIN body /\ body.rag = MarkdownText(Loc(i).text)
                /\ format \notin {"json", "markdown"} =>
                       /\ "rag" \notin DOMAIN body
                       /\ \A k \in DOMAIN Loc(i).puts :
                            Loc(i).puts[k].key \notin RagKeys(Loc(i))

\* C23 witness: a request with an unknown format, an embedding and a summary has
\* been answered with both and without a rag field.
C23_Witness ==
    \E i \in Reqs :
        /\ Processed(i)
        /\ Loc(i).process.rag_format = "xml"
        /\ DOMAIN req[i].body = {"extracted_text", "embedding", "summary"}

\* The summary branch submits what SummaryInput makes of the extracted text, and
\* the summary in the result is the model's answer to it (under SpecProcess).
SummarySubmitsSlice ==
    \A i \in Reqs :
        (IsKind(i, "process") /\ Loc(i).sent # Undefined) =>
            /\ Loc(i).sent = SummaryInput(Loc(i).text)
            /\ Loc(i).result.summary # Undefined =>
                   Loc(i).result.summary = SummaryOf(Loc(i).sent)

\* The texts of the inline payloads are what the handler decodes from them
\* (under SpecProcess).
InlineTextIsDecodedPayload ==
    \A i \in Reqs :
        (/\ IsKind(i, "process") /\ Loc(i).input.type = "local" /\ ~Loc(i).pdf
         /\ Loc(i).result.extracted_text # Undefined) =>
            Loc(i).text = TextDecode(Atob(Loc(i).input.content))

\* C24: the text the summary branch submits to the generative model is the
\* prefix of the extracted text of length min(length of the text, 200000):
\* never longer than the budget, and the whole text when it fits.
C24_SummaryInputIsBudgetedPrefix ==
    \A i \in Reqs :
        (IsKind(i, "slice") /\ req[i].pc = "sliced") =>
            /\ req[i].sentLen = Min(req[i].len, SummaryBudget)
            /\ req[i].sentLen <= SummaryBudget
            /\ req[i].sentIsPrefix
            /\ req[i].len <= SummaryBudget <=> req[i].sentIsWhole

\* C24 witness: a text one character longer than the budget has been cut to
\* the budget.
C24_Witness ==
    \E i \in Reqs :
        /\ IsKind(i, "slice") /\ req[i].pc = "sliced"
        /\ req[i].len = SummaryBudget + 1
        /\ req[i].sentLen = SummaryBudget
        /\ ~req[i].sentIsWhole

\* The character that, in the pages and payloads of the model, occurs only in
\* the body of a script or style block.
BlockBodyChar == "x"

\* The extracted text of request i holds a character of a block body.
LeaksBlockBody(i) ==
    \E k \in DOMAIN Loc(i).text : Loc(i).text[k] = BlockBodyChar

\* C25 (as claimed): whatever the source of a POST /process request (a URL
\* fetched raw or rendered, a stored object, an inline payload), no character
\* of a script or style block body is in its extracted text.
C25_NoBlockBodyInText ==
    \A i \in Reqs : IsKind(i, "process") => ~LeaksBlockBody(i)

\* The part of C25 that holds (under SpecProcess): pages taken from a URL, raw
\* or rendered, lose their script and style blocks, also a block whose body has
\* angle brackets and a line break.
UrlMarkupIsStripped ==
    \A i \in Reqs :
        (IsKind(i, "process") /\ Loc(i).input.type = "url") =>
            /\ ~LeaksBlockBody(i)
            /\ Loc(i).result.extracted_text # Undefined /\ ~Loc(i).pdf =>
                   Loc(i).text = StripHtml(Loc(i).html)

\* The keys of the bucket that end in .pdf.
PdfKeys == {<<"src.pdf">>, <<"raw.pdf">>}

\* The input carries a PDF hint: a declared content type of application/pdf, or
\* a file name or key that ends in .pdf.
HasPdfHint(input) ==
    CASE input.type = "r2" ->
             IncludesPdf(SourceObjects[input.key].contentType) \/ input.key \in PdfKeys
      [] input.type = "local" -> IsPdfName(input.filename)

\* Request i has read its stored object or decoded its inline payload.
SourceRead(i) ==
    /\ IsKind(i, "process")
    /\ \/ Loc(i).input.type = "r2" /\ Loc(i).input.key \in DOMAIN SourceObjects
       \/ Loc(i).input.type = "local" /\ IsBase64(Loc(i).input.content)
    /\ Loc(i).pdf \/ Loc(i).result.extracted_text # Undefined

\* C26 (as claimed, for stored objects and inline payloads): PDF extraction is
\* selected exactly when the input carries a PDF hint.
C26_PdfExactlyOnHint ==
    \A i \in Reqs : SourceRead(i) => (Loc(i).pdf <=> HasPdfHint(Loc(i).input))

\* What holds instead (under SpecProcess): each variant looks at one hint only,
\* a stored object at its content type and an inline payload at its file name.
PdfByVariantHint ==
    \A i \in Reqs :
        SourceRead(i) =>
            (Loc(i).pdf <=>
                IF Loc(i).input.type = "r2"
                THEN IncludesPdf(SourceObjects[Loc(i).input.key].contentType)
                ELSE IsPdfName(Loc(i).input.filename))

\* C27: whatever uploads have run, at most one record of the index carries a
\* given metadata fileId, so a semantic search for a document gets at most one
\* match, never more than topK, and answers with at most one chunk.
C27_AtMostOneChunk ==
    /\ \A id \in Ids : Cardinality({rec \in vec : rec.fileId = id}) <= 1
    /\ \A i \in Reqs :
         IsKind(i, "semantic") =>
             /\ Len(Loc(i).matches) <= 1
             /\ Len(Loc(i).matches) <= TopK
             /\ Answered(i) => Len(req[i].body.chunks) <= 1

\* C27 witness: a search for an uploaded document has answered with one chunk.
C27_Witness ==
    \E i \in Reqs :
        /\ Answered(i)
        /\ Len(req[i].body.chunks) = 1
        /\ HasRecord(Loc(i).fileId)

\* C28: an upload attempts its writes in the order original object, Document
\* row, Embedding Record, each after the one before has succeeded; so every
\* record of the index has the id of an existing Document row, and the r2_key of
\* every Document row names an object the bucket holds.
C28_WritesAreOrdered ==
    /\ \A rec \in vec : HasRow(rec.id)
    /\ \A row \in db : row.r2_key \in DOMAIN r2
    /\ \A i \in Reqs :
         IsKind(i, "upload") =>
             LET log == Loc(i).writes
             IN  /\ Len(log) <= 3
                 /\ \A k \in DOMAIN log :
                      /\ log[k].key = <<"r2", "db", "vec">>[k]
                      /\ k < Len(log) => log[k].ok

\* C28 witness: two uploads have ended, one with its row and its record, the
\* other with its row and, its Vectorize insert having failed, no record.
C28_Witness ==
    \E i, j \in Reqs :
        /\ IsUploadOf(i) /\ Done(i) /\ req[i].status = 200
        /\ HasRow(Loc(i).fileId) /\ HasRecord(Loc(i).fileId)
        /\ IsUploadOf(j) /\ Done(j) /\ req[j].status = 500
        /\ HasRow(Loc(j).fileId) /\ ~HasRecord(Loc(j).fileId)

\* The artifact with a given extension that is derived from a text.
ArtifactOf(text, ext) ==
    CASE ext = "txt" -> text
      [] ext = "rag.json" -> JsonText(text)
      [] ext = "rag.md" -> MarkdownText(text)
      [] ext = "summary.txt" -> SummaryOf(SummaryInput(text))
      [] ext = "embedding.json" -> EmbOf(text)

\* The keys of the objects the bucket holds under a prefix.
Under(prefix) == {k \in DOMAIN r2 : Len(k) = 2 /\ k[1] = prefix}

\* The texts of the requests that have written under some prefix.
RequestTexts ==
    {EarlierRequest.text} \cup {Loc(i).text : i \in {j \in Reqs : IsKind(j, "process")}}

OwnArtifactsAreDerived ==
    \A i \in Reqs :
        Processed(i) =>
            /\ Loc(i).puts # <<>>
            /\ \A n \in DOMAIN Loc(i).puts :
                 LET put == Loc(i).puts[n]
                 IN  /\ put.ok
                     /\ put.key[1] = Prefix(Loc(i).output)
                     /\ r2[put.key].body = ArtifactOf(Loc(i).text, put.key[2])

\* The routes that read one document.
ReadKinds == {"document", "embeddings", "ask", "semantic"}

\* C30: a step of POST /process leaves the documents table and the vector index
\* as they were, keeps every object of the bucket and creates or changes only
\* objects under the output prefix of its request; a step of GET /:fileId,
\* GET /:fileId/embeddings, POST /:fileId/ask or POST /:fileId/semantic leaves
\* the bucket, the table and the index as they were, whatever its outcome.
C30_RoutesKeepTheirFrame ==
    [][\A i \in Reqs :
           req'[i] # req[i] =>
               /\ req'[i].kind = "process" =>
                      /\ db' = db /\ vec' = vec
                      /\ DOMAIN r2 \subseteq DOMAIN r2'
                      /\ \A k \in DOMAIN r2' :
                           (k \notin DOMAIN r2 \/ r2'[k] # r2[k]) =>
                               /\ Len(k) = 2
                               /\ k[1] = Prefix((IF req'[i].pc = "done" THEN req'[i].in
                                                 ELSE req'[i]).output)
               /\ req'[i].kind \in ReadKinds =>
                      /\ r2' = r2 /\ db' = db /\ vec' = vec]_vars

\* C30 witness: an ingestion with an output key has put its text and another
\* artifact and answered, a question about the uploaded document has been
\* answered too, and the table, the index and the objects outside the prefix
\* are those of the start.
C30_Witness ==
    /\ Processed(1)
    /\ Loc(1).output = "p"
    /\ Len(Loc(1).puts) >= 2
    /\ Under("p") # {}
    /\ IsKind(2, "ask") /\ Done(2) /\ req[2].status = 200
    /\ db = {Row(1, "a.txt", UploadedKey, <<"a">>)}
    /\ vec = {[id |-> 1, values |-> EmbOf(<<"a">>), fileId |-> 1]}
    /\ \A k \in DOMAIN SourceObjects : r2[k] = SourceObjects[k]

====
